---- MODULE Spec2Model ----
(***************************************************************************)
(* KingdomLight: the three pieces of the repository that keep state of     *)
(* their own between engine callbacks.                                     *)
(*                                                                         *)
(*   UAG_GameplayAbility           ActivateAbility / EndAbility            *)
(*   ALobbyGameMode                PostLogin                               *)
(*   FProjectAcousticsDebugRender  UpdateSourceAcoustics,                  *)
(*                                 UpdateSourceDebugInfo, Render           *)
(*                                                                         *)
(* The Unreal Engine itself is the environment.  What an engine call       *)
(* returns is an input of the action that makes the call, drawn from the   *)
(* outcomes the calling code distinguishes.                                *)
(***************************************************************************)
EXTENDS Integers, Sequences, FiniteSets, TLC

(***************************************************************************)
(* Bounds of the model.                                                    *)
(***************************************************************************)
MaxEffects == 2     \* most entries the two configured effect lists hold together
MaxHandles == 2     \* ActivateAbility is not started once this many handles were issued or are recorded
MaxPlayers == 4     \* most player states in the lobby's player array
MaxTravels == 2     \* PostLogin is not started once ServerTravel was called this often
MaxSources == 2     \* sound sources are numbered 1..MaxSources

VARIABLES
    \* UAG_GameplayAbility and the ability system component it talks to
    OngoingEffectsToJustApplyOnStart,
    OngoingEffectsToRemoveOnEnd,
    instantiated,
    RemoveOnEndEffectHandles,
    ascValid,
    activeEffects,
    nextHandle,
    calls,
    abilityCall,
    \* ALobbyGameMode and the game state it reads
    PlayerArray,
    bUseSeamlessTravel,
    serverTravels,
    lobbyCall,
    \* FProjectAcousticsDebugRender
    m_DebugCache,
    m_World,
    m_Canvas,
    drawnOverlays,
    drawnSources,
    acousticsCall

abilityVars == <<OngoingEffectsToJustApplyOnStart, OngoingEffectsToRemoveOnEnd,
                 instantiated, RemoveOnEndEffectHandles, ascValid, activeEffects,
                 nextHandle, calls, abilityCall>>

lobbyVars == <<PlayerArray, bUseSeamlessTravel, serverTravels, lobbyCall>>

acousticsVars == <<m_DebugCache, m_World, m_Canvas, drawnOverlays, drawnSources,
                   acousticsCall>>

vars == <<abilityVars, lobbyVars, acousticsVars>>

(***************************************************************************)
(* UAG_GameplayAbility                                                     *)
(***************************************************************************)

\* A TSubclassOf<UGameplayEffect> entry of a configured list: a class or null.
NullEffect == "null"
EffectClasses == {NullEffect, "GE"}

RECURSIVE SeqsUpTo(_, _)
SeqsUpTo(S, n) ==
    IF n = 0 THEN {<<>>}
    ELSE LET shorter == SeqsUpTo(S, n - 1)
         IN  shorter \cup {Append(s, x) : s \in {t \in shorter : Len(t) = n - 1}, x \in S}

EffectLists == SeqsUpTo(EffectClasses, MaxEffects)

\* What the engine answers to MakeOutgoingSpec followed by
\* ApplyGameplayEffectSpecToSelf, as far as ActivateAbility tells the answers apart:
\*   specInvalid  SpecHandle.IsValid() is false, nothing is applied
\*   fail         the handle reports WasSuccessfullyApplied() = false
\*   instant      applied, but the handle is not valid (nothing stays active)
\*   active       applied, the handle is valid and names an active effect
Outcomes == {"specInvalid", "fail", "instant", "active"}

\* FActiveGameplayEffectHandle: IsValid() is .valid, WasSuccessfullyApplied() is .applied.
\* Every handle the engine issues for a new active effect is fresh.
NoHandle == [id |-> 0, valid |-> FALSE, applied |-> FALSE]

ApplyGameplayEffectSpecToSelf(outcome, fresh) ==
    CASE outcome = "active"  -> [id |-> fresh, valid |-> TRUE, applied |-> TRUE]
      [] outcome = "instant" -> [id |-> 0, valid |-> FALSE, applied |-> TRUE]
      [] OTHER               -> NoHandle

\* One call into ActorInfo->AbilitySystemComponent: comp tells whether the
\* component was valid when the call was made, h is the active-effect handle
\* passed or returned, ok tells whether a returned spec handle IsValid().
Call(method, comp, list, idx, h, ok) ==
    [method |-> method, comp |-> comp, list |-> list, idx |-> idx, h |-> h, ok |-> ok]

\* Mutants of StoresHandle: the first loop records too; a failed application is recorded.
StoresFromEitherLoop(store, h) == h.applied

StoresUnappliedToo(store, h) == store

\* if (!ActiveGEHandle.WasSuccessfullyApplied()) log, else (second loop only) record
StoresHandle(store, h) == store /\ h.applied

\* The body of one loop of ActivateAbility over a configured list, from entry i on.
\* st carries what the loop changes: the calls made, the next fresh handle,
\* RemoveOnEndEffectHandles and the engine's active effects.
RECURSIVE ApplyEffects(_, _, _, _, _, _, _)
ApplyEffects(effects, list, out, comp, store, i, st) ==
    IF i > Len(effects) THEN st
    ELSE IF effects[i] = NullEffect
         THEN ApplyEffects(effects, list, out, comp, store, i + 1, st)
    ELSE IF ~comp
         THEN ApplyEffects(effects, list, out, comp, store, i + 1, st)
    ELSE LET made == Call("MakeOutgoingSpec", comp, list, i, NoHandle,
                          out[i] # "specInvalid")
         IN  IF out[i] = "specInvalid"
             THEN ApplyEffects(effects, list, out, comp, store, i + 1,
                               [st EXCEPT !.calls = Append(@, made)])
             ELSE LET h == ApplyGameplayEffectSpecToSelf(out[i], st.next)
                      applied == Call("ApplyGameplayEffectSpecToSelf", comp, list, i, h, TRUE)
                  IN  ApplyEffects(effects, list, out, comp, store, i + 1,
                        [calls   |-> st.calls \o <<made, applied>>,
                         next    |-> IF h.valid THEN st.next + 1 ELSE st.next,
                         handles |-> IF StoresHandle(store, h)
                                     THEN Append(st.handles, h) ELSE st.handles,
                         active  |-> IF h.valid
                                     THEN st.active \cup {[id |-> h.id, list |-> list]}
                                     ELSE st.active])

\* The engine's answers for one run of a loop: one outcome for every entry the
\* loop takes to the engine (non-null, component valid, loop entered).
EngineAnswers(effects, asked) ==
    [{i \in 1..Len(effects) : asked /\ effects[i] # NullEffect} -> Outcomes]

\* IsInstantiated() guards the second loop of ActivateAbility.
RunsRemoveOnEndLoop(inst) == inst

\* ActivateAbility after line 16 has returned.
ActivateBody(outS, outE) ==
    LET st0 == [calls   |-> <<Call("MakeEffectContext", ascValid, "none", 0, NoHandle, TRUE)>>,
                next    |-> nextHandle,
                handles |-> RemoveOnEndEffectHandles,
                active  |-> activeEffects]
        st1 == ApplyEffects(OngoingEffectsToJustApplyOnStart, "start", outS,
                            ascValid, FALSE, 1, st0)
    IN  IF RunsRemoveOnEndLoop(instantiated)
        THEN ApplyEffects(OngoingEffectsToRemoveOnEnd, "end", outE, ascValid, TRUE, 1, st1)
        ELSE st1

\* ActivateAbility returns.  With the component invalid the call of line 16 goes
\* through a null pointer; this is the outcome in which execution goes on.
ActivateAbilityReturns(outS, outE) ==
    /\ abilityCall.returned
    /\ nextHandle <= MaxHandles
    /\ Len(RemoveOnEndEffectHandles) < MaxHandles
    /\ LET st == ActivateBody(outS, outE)
       IN  /\ calls' = st.calls
           /\ nextHandle' = st.next
           /\ RemoveOnEndEffectHandles' = st.handles
           /\ activeEffects' = st.active
    /\ abilityCall' = [op |-> "ActivateAbility", returned |-> TRUE]
    /\ UNCHANGED <<OngoingEffectsToJustApplyOnStart, OngoingEffectsToRemoveOnEnd,
                   instantiated, ascValid, lobbyVars, acousticsVars>>

\* ActivateAbility with the component invalid: line 16 calls MakeEffectContext
\* through a null pointer and the process dies there.
ActivateAbilityCrashes ==
    /\ abilityCall.returned
    /\ ~ascValid
    /\ calls' = <<Call("MakeEffectContext", FALSE, "none", 0, NoHandle, TRUE)>>
    /\ abilityCall' = [op |-> "ActivateAbility", returned |-> FALSE]
    /\ UNCHANGED <<OngoingEffectsToJustApplyOnStart, OngoingEffectsToRemoveOnEnd,
                   instantiated, RemoveOnEndEffectHandles, ascValid, activeEffects,
                   nextHandle, lobbyVars, acousticsVars>>

\* if (ActiveEffectHandle.IsValid()) of EndAbility
RemovesHandle(h) == h.valid

\* The RemoveActiveGameplayEffect calls of EndAbility's loop, in order.
RemoveCalls(handles, comp) ==
    LET kept == SelectSeq(handles, RemovesHandle)
    IN  [i \in 1..Len(kept) |->
            Call("RemoveActiveGameplayEffect", comp, "end", i, kept[i], TRUE)]

\* Mutant of EmptyHandles: the list is not emptied.
KeepsHandles(handles) == handles

\* RemoveOnEndEffectHandles.Empty()
EmptyHandles(handles) == <<>>

\* EndAbility returns.
EndAbilityReturns ==
    /\ abilityCall.returned
    /\ IF instantiated
       THEN LET made == RemoveCalls(RemoveOnEndEffectHandles, ascValid)
            IN  /\ calls' = made
                /\ activeEffects' =
                     IF ascValid
                     THEN {e \in activeEffects :
                             \A i \in 1..Len(made) : made[i].h.id # e.id}
                     ELSE activeEffects
                /\ RemoveOnEndEffectHandles' = EmptyHandles(RemoveOnEndEffectHandles)
       ELSE /\ calls' = <<>>
            /\ UNCHANGED <<activeEffects, RemoveOnEndEffectHandles>>
    /\ abilityCall' = [op |-> "EndAbility", returned |-> TRUE]
    /\ UNCHANGED <<OngoingEffectsToJustApplyOnStart, OngoingEffectsToRemoveOnEnd,
                   instantiated, ascValid, nextHandle, lobbyVars, acousticsVars>>

\* EndAbility with the component invalid and a valid handle recorded: line 70
\* calls RemoveActiveGameplayEffect through a null pointer and the process dies
\* at the first such handle.
EndAbilityCrashes ==
    /\ abilityCall.returned
    /\ instantiated
    /\ ~ascValid
    /\ LET made == RemoveCalls(RemoveOnEndEffectHandles, FALSE)
       IN  /\ Len(made) > 0
           /\ calls' = <<made[1]>>
    /\ abilityCall' = [op |-> "EndAbility", returned |-> FALSE]
    /\ UNCHANGED <<OngoingEffectsToJustApplyOnStart, OngoingEffectsToRemoveOnEnd,
                   instantiated, RemoveOnEndEffectHandles, ascValid, activeEffects,
                   nextHandle, lobbyVars, acousticsVars>>

\* The engine destroys the ability system component: the weak pointer
\* ActorInfo->AbilitySystemComponent goes stale and its effects go with it.
ComponentDestroyed ==
    /\ abilityCall.returned
    /\ ascValid
    /\ ascValid' = FALSE
    /\ activeEffects' = {}
    /\ UNCHANGED <<OngoingEffectsToJustApplyOnStart, OngoingEffectsToRemoveOnEnd,
                   instantiated, RemoveOnEndEffectHandles, nextHandle, calls,
                   abilityCall, lobbyVars, acousticsVars>>

NextAbility ==
    \/ \E outS \in EngineAnswers(OngoingEffectsToJustApplyOnStart, ascValid),
          outE \in EngineAnswers(OngoingEffectsToRemoveOnEnd, ascValid /\ instantiated) :
            ActivateAbilityReturns(outS, outE)
    \/ ActivateAbilityCrashes
    \/ EndAbilityReturns
    \/ EndAbilityCrashes
    \/ ComponentDestroyed

(***************************************************************************)
(* Claims about UAG_GameplayAbility, checked under SpecAbility.            *)
(***************************************************************************)

ApplyCall == "ApplyGameplayEffectSpecToSelf"

\* The calls of cs to method made for entries of list, in call order.
CallsTo(cs, method, list) ==
    LET Is(c) == c.method = method /\ c.list = list IN SelectSeq(cs, Is)

HandlesIn(cs) == [k \in 1..Len(cs) |-> cs[k].h]

IdxIn(cs) == [k \in 1..Len(cs) |-> cs[k].idx]

ValidOnly(handles) == LET Is(h) == h.valid IN SelectSeq(handles, Is)

AppliedOnly(handles) == LET Is(h) == h.applied IN SelectSeq(handles, Is)

\* The members of S among 1..n, in increasing order.
IndexSeq(S, n) == LET Is(i) == i \in S IN SelectSeq([i \in 1..n |-> i], Is)

NonNull(effects) == {i \in 1..Len(effects) : effects[i] # NullEffect}

\* A step of SpecAbility that is a call of ActivateAbility or EndAbility that
\* returns: every step but the component's destruction is a call.
ActivateAbilityStep ==
    /\ ascValid' = ascValid
    /\ abilityCall' = [op |-> "ActivateAbility", returned |-> TRUE]

EndAbilityStep ==
    /\ ascValid' = ascValid
    /\ abilityCall' = [op |-> "EndAbility", returned |-> TRUE]

SpecValidOnly(cs) == LET Is(c) == c.ok IN SelectSeq(cs, Is)

ActivateReturned == abilityCall = [op |-> "ActivateAbility", returned |-> TRUE]

EndReturned == abilityCall = [op |-> "EndAbility", returned |-> TRUE]

\* C1: for an instantiated ability, RemoveOnEndEffectHandles always holds the
\* handles ActivateAbility recorded since the previous EndAbility (every
\* ActivateAbility appends the handles of its successful applications of
\* OngoingEffectsToRemoveOnEnd, nothing else changes the list); when EndAbility
\* returns the list is empty, RemoveActiveGameplayEffect was called exactly once
\* for every valid recorded handle and for nothing else, and no effect applied
\* from OngoingEffectsToRemoveOnEnd is still active.
C1_EndAbilityRemovesRecordedHandles ==
    [][instantiated =>
        /\ ActivateAbilityStep =>
             RemoveOnEndEffectHandles' =
                RemoveOnEndEffectHandles
                  \o AppliedOnly(HandlesIn(CallsTo(calls', ApplyCall, "end")))
        /\ EndAbilityStep =>
             LET removed == HandlesIn(CallsTo(calls', "RemoveActiveGameplayEffect", "end"))
             IN  /\ RemoveOnEndEffectHandles' = <<>>
                 /\ removed = ValidOnly(RemoveOnEndEffectHandles)
                 /\ Len(calls') = Len(removed)
                 /\ \A i \in DOMAIN RemoveOnEndEffectHandles :
                       RemoveOnEndEffectHandles[i].valid =>
                          Cardinality({k \in DOMAIN removed :
                                         removed[k] = RemoveOnEndEffectHandles[i]}) = 1
                 /\ \A e \in activeEffects' : e.list # "end"
        /\ ~ActivateAbilityStep /\ ~EndAbilityStep =>
             UNCHANGED RemoveOnEndEffectHandles]_vars

\* C1 witness: EndAbility of an instantiated ability has returned after removing
\* two recorded effects from a valid component.
C1_Witness ==
    /\ EndReturned
    /\ instantiated
    /\ Len(calls) = 2
    /\ \A k \in DOMAIN calls :
          calls[k].method = "RemoveActiveGameplayEffect" /\ calls[k].comp /\ calls[k].h.valid
    /\ RemoveOnEndEffectHandles = <<>>

\* C2 as stated: when ActivateAbility has returned, every non-null entry of
\* OngoingEffectsToJustApplyOnStart was applied exactly once, in list order.
C2_EveryStartEffectApplied ==
    ActivateReturned =>
        IdxIn(CallsTo(calls, ApplyCall, "start"))
          = IndexSeq(NonNull(OngoingEffectsToJustApplyOnStart),
                     Len(OngoingEffectsToJustApplyOnStart))

\* C2 amended: ActivateAbility takes every non-null entry of
\* OngoingEffectsToJustApplyOnStart to MakeOutgoingSpec once, in list order,
\* when the component is valid, and applies exactly those whose spec is valid,
\* once and in list order, whether or not the ability is instantiated; null
\* entries are skipped; no handle of these applications is recorded in
\* RemoveOnEndEffectHandles (the list grows only by the successful applications
\* of the other list), and EndAbility leaves every active effect of these
\* applications active.
C2_StartEffectsAppliedWhenSpecValid ==
    [][/\ ActivateAbilityStep =>
            LET n == Len(OngoingEffectsToJustApplyOnStart)
                asked == {i \in NonNull(OngoingEffectsToJustApplyOnStart) : ascValid}
                made == CallsTo(calls', "MakeOutgoingSpec", "start")
            IN  /\ IdxIn(made) = IndexSeq(asked, n)
                /\ IdxIn(CallsTo(calls', ApplyCall, "start")) = IdxIn(SpecValidOnly(made))
                /\ \A k \in DOMAIN calls' :
                      calls'[k].list = "start" /\ calls'[k].h.valid =>
                        \A i \in DOMAIN RemoveOnEndEffectHandles' :
                           RemoveOnEndEffectHandles'[i] # calls'[k].h
                /\ Len(RemoveOnEndEffectHandles') - Len(RemoveOnEndEffectHandles)
                     = Len(AppliedOnly(HandlesIn(CallsTo(calls', ApplyCall, "end"))))
       /\ EndAbilityStep =>
            \A e \in activeEffects : e.list = "start" => e \in activeEffects']_vars

\* C2 witness: ActivateAbility of a non-instantiated ability has returned after
\* applying two configured start effects in order, both still active.
C2_Witness ==
    /\ ActivateReturned
    /\ ~instantiated
    /\ IdxIn(CallsTo(calls, ApplyCall, "start")) = <<1, 2>>
    /\ Cardinality({e \in activeEffects : e.list = "start"}) = 2
    /\ RemoveOnEndEffectHandles = <<>>

\* C3: a failed application is only logged: RemoveOnEndEffectHandles holds only
\* handles whose application succeeded and grows by exactly the successful
\* applications of OngoingEffectsToRemoveOnEnd; whatever the outcomes of earlier
\* entries, every non-null entry of both lists (the second list when the ability
\* is instantiated) is still taken to the component when it is valid.
C3_FailedApplicationOnlyLogged ==
    [][/\ \A i \in DOMAIN RemoveOnEndEffectHandles' : RemoveOnEndEffectHandles'[i].applied
       /\ ActivateAbilityStep =>
            /\ Len(RemoveOnEndEffectHandles') - Len(RemoveOnEndEffectHandles)
                 = Len(AppliedOnly(HandlesIn(CallsTo(calls', ApplyCall, "end"))))
            /\ ascValid =>
                 IdxIn(CallsTo(calls', "MakeOutgoingSpec", "start"))
                   = IndexSeq(NonNull(OngoingEffectsToJustApplyOnStart),
                              Len(OngoingEffectsToJustApplyOnStart))
            /\ ascValid /\ instantiated =>
                 IdxIn(CallsTo(calls', "MakeOutgoingSpec", "end"))
                   = IndexSeq(NonNull(OngoingEffectsToRemoveOnEnd),
                              Len(OngoingEffectsToRemoveOnEnd))]_vars

\* C3 witness: ActivateAbility has returned after a failed application of a
\* start effect, followed by a successful, recorded application of an end effect.
C3_Witness ==
    /\ ActivateReturned
    /\ \E k, m \in DOMAIN calls :
          /\ k < m
          /\ calls[k].method = ApplyCall /\ calls[k].list = "start" /\ ~calls[k].h.applied
          /\ calls[m].method = ApplyCall /\ calls[m].list = "end" /\ calls[m].h.applied
    /\ Len(RemoveOnEndEffectHandles) = 1

\* C4 as stated: no method of ActorInfo->AbilitySystemComponent is invoked
\* while the component is null or invalid.
C4_NoCallOnInvalidComponent ==
    \A k \in DOMAIN calls : calls[k].comp

(***************************************************************************)
(* ALobbyGameMode                                                          *)
(***************************************************************************)

\* Mutant of LobbyIsFull: two or more players.
LobbyAtLeastFull(NumberOfPlayer) == NumberOfPlayer >= 2

\* if(NumberOfPlayer == 2)
LobbyIsFull(NumberOfPlayer) == NumberOfPlayer = 2

\* if(World)
TravelsFrom(NumberOfPlayer, world) == LobbyIsFull(NumberOfPlayer) /\ world

\* The players that can be in the lobby.
Players == 1..MaxPlayers

\* bUseSeamlessTravel as World->ServerTravel finds it: line 83 has set it
\* before line 84 makes the call.
SeamlessAtServerTravel(before) == TRUE

\* Player p logs in.  The engine's login handling, which ends in
\* Super::PostLogin, has put the player's state into GameState->PlayerArray;
\* world tells whether GetWorld() returns a world.
PostLogin(p, world) ==
    /\ p \notin PlayerArray
    /\ serverTravels < MaxTravels
    /\ LET NumberOfPlayer == Cardinality(PlayerArray \cup {p})
           travels == TravelsFrom(NumberOfPlayer, world)
           seamless == IF travels THEN TRUE ELSE bUseSeamlessTravel
           found == travels /\ SeamlessAtServerTravel(bUseSeamlessTravel)
       IN  /\ PlayerArray' = PlayerArray \cup {p}
           /\ bUseSeamlessTravel' = seamless
           /\ serverTravels' = IF travels THEN serverTravels + 1 ELSE serverTravels
           /\ lobbyCall' = [op |-> "PostLogin", NumberOfPlayer |-> NumberOfPlayer,
                            world |-> world, travelled |-> travels,
                            seamlessAtTravel |-> found]
    /\ UNCHANGED <<abilityVars, acousticsVars>>

\* Player p leaves: the engine takes the player's state out of the player array.
Logout(p) ==
    /\ p \in PlayerArray
    /\ PlayerArray' = PlayerArray \ {p}
    /\ lobbyCall' = [op |-> "Logout", NumberOfPlayer |-> Cardinality(PlayerArray) - 1,
                     world |-> TRUE, travelled |-> FALSE, seamlessAtTravel |-> FALSE]
    /\ UNCHANGED <<bUseSeamlessTravel, serverTravels, abilityVars, acousticsVars>>

NextLobby ==
    \/ \E p \in Players, world \in BOOLEAN : PostLogin(p, world)
    \/ \E p \in Players : Logout(p)

(***************************************************************************)
(* Claims about ALobbyGameMode, checked under SpecLobby.                   *)
(***************************************************************************)

\* C5: PostLogin calls ServerTravel if and only if the player array, with the
\* player who logged in, holds exactly 2 players and the world is non-null;
\* ServerTravel then finds bUseSeamlessTravel true; in every other case no
\* travel is triggered and bUseSeamlessTravel is left as it was.
C5_TravelsExactlyAtTwoPlayers ==
    [][\A p \in Players, world \in BOOLEAN :
          PostLogin(p, world) =>
            LET travelled == serverTravels' = serverTravels + 1
            IN  /\ travelled <=> (Cardinality(PlayerArray') = 2 /\ world)
                /\ travelled <=> lobbyCall'.travelled
                /\ travelled => lobbyCall'.seamlessAtTravel /\ bUseSeamlessTravel'
                /\ ~travelled => /\ serverTravels' = serverTravels
                                 /\ bUseSeamlessTravel' = bUseSeamlessTravel]_vars

\* C5 witness: the second player's PostLogin has called ServerTravel a first
\* time, with bUseSeamlessTravel set.
C5_Witness ==
    /\ lobbyCall.op = "PostLogin"
    /\ lobbyCall.travelled
    /\ lobbyCall.NumberOfPlayer = 2
    /\ Cardinality(PlayerArray) = 2
    /\ serverTravels = 1
    /\ bUseSeamlessTravel

\* C15 as stated: across any sequence of logins and logouts, once a PostLogin
\* has called ServerTravel no later PostLogin calls it again: ServerTravel is
\* called at most once per lobby.
C15_ServerTravelAtMostOnce == serverTravels <= 1

(***************************************************************************)
(* FProjectAcousticsDebugRender                                            *)
(***************************************************************************)

c_MaxDebugDrawDistance == 5000

SourceIDs == 1..MaxSources

\* FName values: the empty name and one display name.
DisplayNames == {"", "Emitter"}

\* What one acoustics query hands to UpdateSourceAcoustics.  Positions are
\* points on a line; the two inputs differ in every field, the first lies at
\* exactly c_MaxDebugDrawDistance from the listener, the second beyond it.
AcousticsInputs ==
    {[sourceLocation |-> 5000, listenerLocation |-> 0, didQuerySucceed |-> TRUE,
      objectParams |-> "paramsA", queryDebugInfo |-> "queryA"],
     [sourceLocation |-> 1, listenerLocation |-> 5002, didQuerySucceed |-> FALSE,
      objectParams |-> "paramsB", queryDebugInfo |-> "queryB"]}

\* AcousticsDrawParameters; PerSource stands for every value other than the
\* two the code names.
ShowAllParameters == "ShowAllParameters"
HideAllParameters == "HideAllParameters"
DrawModes == {"PerSource", ShowAllParameters, HideAllParameters}

Overlays == {"Stats", "Voxels", "Probes", "Distances"}

\* m_DebugCache.Contains(sourceID)
Contains(cache, sourceID) == \E e \in cache : e.SourceID = sourceID

\* Mutant of Remove: nothing is removed.
RemoveNothing(cache, sourceID) == cache

\* m_DebugCache.Remove(sourceID)
Remove(cache, sourceID) == {e \in cache : e.SourceID # sourceID}

\* Mutant of NewEntry: a new entry starts with its draw flag set.
NewEntryDrawn(sourceID, in) ==
    [DisplayName |-> "", SourceID |-> sourceID,
     SourceLocation |-> in.sourceLocation, ListenerLocation |-> in.listenerLocation,
     DidQuerySucceed |-> in.didQuerySucceed, objectParams |-> in.objectParams,
     queryDebugInfo |-> in.queryDebugInfo, ShouldDraw |-> TRUE]

\* The entry m_DebugCache.Add puts in for a source that has none.
NewEntry(sourceID, in) ==
    [DisplayName |-> "", SourceID |-> sourceID,
     SourceLocation |-> in.sourceLocation, ListenerLocation |-> in.listenerLocation,
     DidQuerySucceed |-> in.didQuerySucceed, objectParams |-> in.objectParams,
     queryDebugInfo |-> in.queryDebugInfo, ShouldDraw |-> FALSE]

\* Mutants of UpdatedEntry: queryDebugInfo is not assigned; the entry is
\* replaced by a new one, as if the source had none.
UpdatedEntryStaleQuery(e, sourceID, in) ==
    [e EXCEPT !.SourceID = sourceID,
              !.SourceLocation = in.sourceLocation,
              !.ListenerLocation = in.listenerLocation,
              !.DidQuerySucceed = in.didQuerySucceed,
              !.objectParams = in.objectParams]

UpdatedEntryAsNew(e, sourceID, in) == NewEntry(sourceID, in)

\* The assignments of UpdateSourceAcoustics to an entry that exists.
UpdatedEntry(e, sourceID, in) ==
    [e EXCEPT !.SourceID = sourceID,
              !.SourceLocation = in.sourceLocation,
              !.ListenerLocation = in.listenerLocation,
              !.DidQuerySucceed = in.didQuerySucceed,
              !.objectParams = in.objectParams,
              !.queryDebugInfo = in.queryDebugInfo]

\* m_DebugCache after UpdateSourceAcoustics.
CacheAfterAcoustics(cache, sourceID, in) ==
    IF ~Contains(cache, sourceID)
    THEN cache \cup {NewEntry(sourceID, in)}
    ELSE {IF e.SourceID = sourceID THEN UpdatedEntry(e, sourceID, in) ELSE e : e \in cache}

UpdateSourceAcoustics(sourceID, in) ==
    /\ m_DebugCache' = CacheAfterAcoustics(m_DebugCache, sourceID, in)
    /\ acousticsCall' = [op |-> "UpdateSourceAcoustics", sourceID |-> sourceID,
                         isBeingDestroyed |-> FALSE, mode |-> "none", ret |-> TRUE]
    /\ drawnOverlays' = {}
    /\ drawnSources' = {}
    /\ UNCHANGED <<m_World, m_Canvas, abilityVars, lobbyVars>>

\* m_DebugCache after UpdateSourceDebugInfo.
CacheAfterDebugInfo(cache, sourceID, shouldDraw, displayName, isBeingDestroyed) ==
    IF isBeingDestroyed THEN Remove(cache, sourceID)
    ELSE {IF e.SourceID = sourceID
          THEN [e EXCEPT !.ShouldDraw = shouldDraw, !.DisplayName = displayName]
          ELSE e : e \in cache}

\* Mutant of DebugInfoResult: a source without an entry is not reported.
AlwaysSucceeds(cache, sourceID, isBeingDestroyed) == TRUE

\* What UpdateSourceDebugInfo returns.
DebugInfoResult(cache, sourceID, isBeingDestroyed) ==
    isBeingDestroyed \/ Contains(cache, sourceID)

UpdateSourceDebugInfo(sourceID, shouldDraw, displayName, isBeingDestroyed) ==
    /\ m_DebugCache' = CacheAfterDebugInfo(m_DebugCache, sourceID, shouldDraw,
                                           displayName, isBeingDestroyed)
    /\ acousticsCall' = [op |-> "UpdateSourceDebugInfo", sourceID |-> sourceID,
                         isBeingDestroyed |-> isBeingDestroyed, mode |-> "none",
                         ret |-> DebugInfoResult(m_DebugCache, sourceID, isBeingDestroyed)]
    /\ drawnOverlays' = {}
    /\ drawnSources' = {}
    /\ UNCHANGED <<m_World, m_Canvas, abilityVars, lobbyVars>>

\* FVector::DistSquared
DistSquared(a, b) == (a - b) * (a - b)

\* Mutant of TooFar: a source at exactly the maximal distance is culled too.
TooFarInclusive(info) ==
    DistSquared(info.SourceLocation, info.ListenerLocation)
        >= c_MaxDebugDrawDistance * c_MaxDebugDrawDistance

\* Don't draw a source if it is too far.
TooFar(info) ==
    DistSquared(info.SourceLocation, info.ListenerLocation)
        > c_MaxDebugDrawDistance * c_MaxDebugDrawDistance

\* Mutant of SkipsSource: the global mode is not looked at.
SkipsWheneverFlagUnset(info, shouldDrawSourceParameters) == ~info.ShouldDraw

\* The individual source says don't draw and the global mode isn't ShowAll.
SkipsSource(info, shouldDrawSourceParameters) ==
    ~info.ShouldDraw /\ shouldDrawSourceParameters # ShowAllParameters

\* Mutant of DrawSources: no early exit for HideAllParameters.
DrawSourcesWithoutEarlyExit(cache, shouldDrawSourceParameters) ==
    {info.SourceID : info \in
        {e \in cache : ~SkipsSource(e, shouldDrawSourceParameters) /\ ~TooFar(e)}}

\* The sources DrawSources draws: those its loop neither skips nor culls.
DrawSources(cache, shouldDrawSourceParameters) ==
    IF shouldDrawSourceParameters = HideAllParameters THEN {}
    ELSE {info.SourceID : info \in
            {e \in cache : ~SkipsSource(e, shouldDrawSourceParameters) /\ ~TooFar(e)}}

\* Mutant of RenderResult: only the world is checked.
RenderChecksWorldOnly(world, canvas) == world

\* if (!m_World || !m_Canvas) return false;
RenderResult(world, canvas) == world /\ canvas

\* Render; world and canvas tell whether the pointers are non-null, flags is
\* the set of overlays whose shouldDraw argument is true.
Render(world, canvas, flags, shouldDrawSourceParameters) ==
    /\ m_World' = world
    /\ m_Canvas' = canvas
    /\ IF RenderResult(world, canvas)
       THEN /\ drawnOverlays' = flags
            /\ drawnSources' = DrawSources(m_DebugCache, shouldDrawSourceParameters)
       ELSE /\ drawnOverlays' = {}
            /\ drawnSources' = {}
    /\ acousticsCall' = [op |-> "Render", sourceID |-> 0, isBeingDestroyed |-> FALSE,
                         mode |-> shouldDrawSourceParameters,
                         ret |-> RenderResult(world, canvas)]
    /\ UNCHANGED <<m_DebugCache, abilityVars, lobbyVars>>

NextAcoustics ==
    \/ \E sourceID \in SourceIDs, in \in AcousticsInputs :
          UpdateSourceAcoustics(sourceID, in)
    \/ \E sourceID \in SourceIDs, shouldDraw \in BOOLEAN, displayName \in DisplayNames,
          isBeingDestroyed \in BOOLEAN :
          UpdateSourceDebugInfo(sourceID, shouldDraw, displayName, isBeingDestroyed)
    \/ \E world \in BOOLEAN, canvas \in BOOLEAN, flags \in SUBSET Overlays,
          mode \in DrawModes :
          Render(world, canvas, flags, mode)

(***************************************************************************)
(* Claims about FProjectAcousticsDebugRender, checked under SpecAcoustics. *)
(***************************************************************************)

EntriesOf(cache, sourceID) == {e \in cache : e.SourceID = sourceID}

OtherEntries(cache, sourceID) == {e \in cache : e.SourceID # sourceID}

ShouldDrawIn(cache, sourceID) == \E e \in EntriesOf(cache, sourceID) : e.ShouldDraw

\* C6: UpdateSourceAcoustics returns true; afterwards the cache holds exactly
\* one entry for sourceID, whose SourceLocation, ListenerLocation,
\* DidQuerySucceed, objectParams and queryDebugInfo are the arguments of the
\* call; the entries of all other sources are as before.
C6_UpdateSourceAcousticsStoresArguments ==
    [][acousticsCall'.op = "UpdateSourceAcoustics" =>
       \A sourceID \in SourceIDs, in \in AcousticsInputs :
          UpdateSourceAcoustics(sourceID, in) =>
            /\ acousticsCall'.ret = TRUE
            /\ Cardinality(EntriesOf(m_DebugCache', sourceID)) = 1
            /\ \A e \in EntriesOf(m_DebugCache', sourceID) :
                  /\ e.SourceLocation = in.sourceLocation
                  /\ e.ListenerLocation = in.listenerLocation
                  /\ e.DidQuerySucceed = in.didQuerySucceed
                  /\ e.objectParams = in.objectParams
                  /\ e.queryDebugInfo = in.queryDebugInfo
            /\ OtherEntries(m_DebugCache', sourceID) = OtherEntries(m_DebugCache, sourceID)]_vars

\* C6 witness: UpdateSourceAcoustics has updated the entry of a source whose
\* draw flag had been set before, next to the entry of another source.
C6_Witness ==
    /\ acousticsCall.op = "UpdateSourceAcoustics"
    /\ ShouldDrawIn(m_DebugCache, acousticsCall.sourceID)
    /\ OtherEntries(m_DebugCache, acousticsCall.sourceID) # {}

\* C7: UpdateSourceDebugInfo with isBeingDestroyed = true returns true and
\* leaves no entry for the source, whatever shouldDraw and displayName are and
\* whether or not an entry existed, and changes no other entry; only
\* UpdateSourceAcoustics for the same sourceID brings an entry back, and Render
\* draws no source that has no entry.
C7_DestroyedSourceIsNotDrawn ==
    [][/\ acousticsCall'.op = "UpdateSourceDebugInfo" =>
          \A sourceID \in SourceIDs, shouldDraw \in BOOLEAN, displayName \in DisplayNames :
            UpdateSourceDebugInfo(sourceID, shouldDraw, displayName, TRUE) =>
              /\ acousticsCall'.ret = TRUE
              /\ EntriesOf(m_DebugCache', sourceID) = {}
              /\ OtherEntries(m_DebugCache', sourceID) = OtherEntries(m_DebugCache, sourceID)
       /\ \A sourceID \in SourceIDs :
            EntriesOf(m_DebugCache, sourceID) = {} /\ EntriesOf(m_DebugCache', sourceID) # {} =>
              \E in \in AcousticsInputs : UpdateSourceAcoustics(sourceID, in)
       /\ \A sourceID \in drawnSources' : EntriesOf(m_DebugCache', sourceID) # {}]_vars

\* C7 witness: a destroying UpdateSourceDebugInfo has returned true, its source
\* has no entry, and the entry of another source, flagged to be drawn, remains.
C7_Witness ==
    /\ acousticsCall.op = "UpdateSourceDebugInfo"
    /\ acousticsCall.isBeingDestroyed
    /\ acousticsCall.ret
    /\ EntriesOf(m_DebugCache, acousticsCall.sourceID) = {}
    /\ \E e \in m_DebugCache : e.ShouldDraw

\* C8: UpdateSourceAcoustics for a source that has an entry leaves the entry's
\* ShouldDraw and DisplayName as they were.
C8_UpdateKeepsDrawFlagAndName ==
    [][acousticsCall'.op = "UpdateSourceAcoustics" =>
       \A sourceID \in SourceIDs, in \in AcousticsInputs :
          UpdateSourceAcoustics(sourceID, in) /\ EntriesOf(m_DebugCache, sourceID) # {} =>
            /\ EntriesOf(m_DebugCache', sourceID) # {}
            /\ \A e \in EntriesOf(m_DebugCache, sourceID),
                  f \in EntriesOf(m_DebugCache', sourceID) :
                  f.ShouldDraw = e.ShouldDraw /\ f.DisplayName = e.DisplayName]_vars

\* C8 witness: UpdateSourceAcoustics has returned for a source whose entry
\* carries a draw flag and a display name set by UpdateSourceDebugInfo.
C8_Witness ==
    /\ acousticsCall.op = "UpdateSourceAcoustics"
    /\ \E e \in EntriesOf(m_DebugCache, acousticsCall.sourceID) :
          e.ShouldDraw /\ e.DisplayName = "Emitter"

\* C9: the entry UpdateSourceAcoustics creates for a source that has none has
\* ShouldDraw = false and an empty DisplayName; a source's ShouldDraw becomes
\* true only by an UpdateSourceDebugInfo(sourceID, shouldDraw = true, ...)
\* that returns true; and in the per-source draw mode Render draws only
\* sources whose ShouldDraw is true.
C9_NewSourceIsNotDrawn ==
    [][/\ acousticsCall'.op = "UpdateSourceAcoustics" =>
          \A sourceID \in SourceIDs, in \in AcousticsInputs :
            UpdateSourceAcoustics(sourceID, in) /\ EntriesOf(m_DebugCache, sourceID) = {} =>
              \A e \in EntriesOf(m_DebugCache', sourceID) :
                 ~e.ShouldDraw /\ e.DisplayName = ""
       /\ \A sourceID \in SourceIDs :
            ~ShouldDrawIn(m_DebugCache, sourceID) /\ ShouldDrawIn(m_DebugCache', sourceID) =>
              /\ acousticsCall'.ret = TRUE
              /\ \E displayName \in DisplayNames :
                    UpdateSourceDebugInfo(sourceID, TRUE, displayName, FALSE)
       /\ acousticsCall'.op = "Render" /\ acousticsCall'.mode = "PerSource" =>
            \A sourceID \in drawnSources' : ShouldDrawIn(m_DebugCache, sourceID)]_vars

\* C9 witness: a per-source Render has drawn a source flagged by
\* UpdateSourceDebugInfo and has not drawn a source within range whose entry
\* still has ShouldDraw = false.
C9_Witness ==
    /\ acousticsCall.op = "Render"
    /\ acousticsCall.mode = "PerSource"
    /\ acousticsCall.ret
    /\ \E e \in m_DebugCache : e.ShouldDraw /\ e.SourceID \in drawnSources
    /\ \E e \in m_DebugCache : ~e.ShouldDraw /\ ~TooFar(e) /\ e.SourceID \notin drawnSources

\* C10: UpdateSourceDebugInfo with isBeingDestroyed = false returns false and
\* leaves the cache as it was for a source without an entry; for a source with
\* an entry it returns true, sets that entry's ShouldDraw and DisplayName to the
\* arguments and changes no other field and no other entry.
C10_DebugInfoNeedsAnEntry ==
    [][acousticsCall'.op = "UpdateSourceDebugInfo" =>
       \A sourceID \in SourceIDs, shouldDraw \in BOOLEAN, displayName \in DisplayNames :
          UpdateSourceDebugInfo(sourceID, shouldDraw, displayName, FALSE) =>
            IF EntriesOf(m_DebugCache, sourceID) = {}
            THEN /\ acousticsCall'.ret = FALSE
                 /\ m_DebugCache' = m_DebugCache
            ELSE /\ acousticsCall'.ret = TRUE
                 /\ Cardinality(EntriesOf(m_DebugCache', sourceID)) = 1
                 /\ \A e \in EntriesOf(m_DebugCache, sourceID),
                       f \in EntriesOf(m_DebugCache', sourceID) :
                       /\ f.ShouldDraw = shouldDraw
                       /\ f.DisplayName = displayName
                       /\ f.SourceLocation = e.SourceLocation
                       /\ f.ListenerLocation = e.ListenerLocation
                       /\ f.DidQuerySucceed = e.DidQuerySucceed
                       /\ f.objectParams = e.objectParams
                       /\ f.queryDebugInfo = e.queryDebugInfo
                 /\ OtherEntries(m_DebugCache', sourceID)
                      = OtherEntries(m_DebugCache, sourceID)]_vars

\* C10 witness: UpdateSourceDebugInfo has returned false for a source without
\* an entry while the cache holds the entry of another source.
C10_Witness ==
    /\ acousticsCall.op = "UpdateSourceDebugInfo"
    /\ ~acousticsCall.isBeingDestroyed
    /\ ~acousticsCall.ret
    /\ EntriesOf(m_DebugCache, acousticsCall.sourceID) = {}
    /\ m_DebugCache # {}

\* C11: Render returns false and draws nothing, neither an overlay nor a
\* source, when the world or the canvas it was given (kept in m_World and
\* m_Canvas) is null, whatever the draw flags and the draw mode are, and
\* returns true in every other case.
C11_RenderNeedsWorldAndCanvas ==
    [][acousticsCall'.op = "Render" =>
         /\ acousticsCall'.ret = (m_World' /\ m_Canvas')
         /\ ~(m_World' /\ m_Canvas') => drawnOverlays' = {} /\ drawnSources' = {}]_vars

\* C11 witness: Render has returned false for a null canvas and a non-null
\* world, in the mode that shows all sources, with a source in range flagged to
\* be drawn in the cache, and has drawn nothing.
C11_Witness ==
    /\ acousticsCall.op = "Render"
    /\ acousticsCall.mode = ShowAllParameters
    /\ ~acousticsCall.ret
    /\ m_World /\ ~m_Canvas
    /\ \E e \in m_DebugCache : e.ShouldDraw /\ ~TooFar(e)
    /\ drawnOverlays = {} /\ drawnSources = {}

\* A Render that has returned true outside the mode that hides all sources.
RenderedSources ==
    /\ acousticsCall.op = "Render"
    /\ acousticsCall.ret
    /\ acousticsCall.mode # HideAllParameters

\* The squared distance between an entry's source and its listener.
SquaredDistance(e) ==
    (e.SourceLocation - e.ListenerLocation) * (e.SourceLocation - e.ListenerLocation)

\* The distance test of the draw loop, on an entry of the cache.
WithinDrawDistance(e) ==
    SquaredDistance(e) <= c_MaxDebugDrawDistance * c_MaxDebugDrawDistance

\* C12 as stated: outside HideAllParameters, the sources drawn are exactly the
\* cached sources whose ShouldDraw flag is true or that are drawn in the mode
\* ShowAllParameters.
C12_DrawnUnlessFlagAndModeSkip ==
    RenderedSources =>
        drawnSources = {e.SourceID : e \in
                          {f \in m_DebugCache :
                              f.ShouldDraw \/ acousticsCall.mode = ShowAllParameters}}

\* C12 amended: outside HideAllParameters, the sources drawn are exactly the
\* cached sources whose ShouldDraw flag is true or that are drawn in the mode
\* ShowAllParameters, and that lie within c_MaxDebugDrawDistance of the listener.
C12_DrawnUnlessSkippedOrTooFar ==
    RenderedSources =>
        drawnSources = {e.SourceID : e \in
                          {f \in m_DebugCache :
                              /\ f.ShouldDraw \/ acousticsCall.mode = ShowAllParameters
                              /\ WithinDrawDistance(f)}}

\* C12 witness: a Render in the mode ShowAllParameters has drawn a source in
\* range whose ShouldDraw flag is false and has left out a flagged source that
\* is too far.
C12_Witness ==
    /\ RenderedSources
    /\ acousticsCall.mode = ShowAllParameters
    /\ \E e \in m_DebugCache :
          ~e.ShouldDraw /\ WithinDrawDistance(e) /\ e.SourceID \in drawnSources
    /\ \E e \in m_DebugCache :
          e.ShouldDraw /\ ~WithinDrawDistance(e) /\ e.SourceID \notin drawnSources

\* C13: a Render in the mode HideAllParameters, given a world and a canvas,
\* draws no source, whatever the ShouldDraw flags of the cached sources are,
\* and draws exactly the overlays (stats, voxels, probes, distances) whose own
\* flag is set.
C13_HideAllDrawsNoSource ==
    [][/\ acousticsCall'.op = "Render"
       /\ acousticsCall'.mode = HideAllParameters
       /\ m_World' /\ m_Canvas'
       => /\ drawnSources' = {}
          /\ \A flags \in SUBSET Overlays :
                Render(TRUE, TRUE, flags, HideAllParameters) => drawnOverlays' = flags]_vars

\* C13 witness: a Render in the mode HideAllParameters has returned true with
\* a flagged source in range in the cache, has drawn no source and has drawn
\* all four overlays.
C13_Witness ==
    /\ acousticsCall.op = "Render"
    /\ acousticsCall.mode = HideAllParameters
    /\ acousticsCall.ret
    /\ \E e \in m_DebugCache : e.ShouldDraw /\ WithinDrawDistance(e)
    /\ drawnSources = {}
    /\ drawnOverlays = Overlays

\* C14: a cached source whose squared distance to its listener is greater than
\* c_MaxDebugDrawDistance squared is drawn by no Render, in any draw mode; a
\* source at exactly c_MaxDebugDrawDistance is drawn whenever its flag or the
\* mode ShowAllParameters has it drawn.
C14_TooFarSourceIsNeverDrawn ==
    \A e \in m_DebugCache :
       /\ SquaredDistance(e) > 5000 * 5000 => e.SourceID \notin drawnSources
       /\ /\ SquaredDistance(e) = 5000 * 5000
          /\ RenderedSources
          /\ e.ShouldDraw \/ acousticsCall.mode = ShowAllParameters
          => e.SourceID \in drawnSources

\* C14 witness: a Render in the mode ShowAllParameters has drawn a source at
\* exactly distance 5000 and has not drawn a source farther away.
C14_Witness ==
    /\ RenderedSources
    /\ acousticsCall.mode = ShowAllParameters
    /\ \E e \in m_DebugCache :
          SquaredDistance(e) = 5000 * 5000 /\ e.SourceID \in drawnSources
    /\ \E e \in m_DebugCache :
          SquaredDistance(e) > 5000 * 5000 /\ e.SourceID \notin drawnSources

(***************************************************************************)
(* Specifications: one per class, the other two classes at rest.           *)
(***************************************************************************)

\* The ability as the engine constructs it, with any configuration of the two lists.
InitAbility ==
    /\ OngoingEffectsToJustApplyOnStart \in EffectLists
    /\ OngoingEffectsToRemoveOnEnd \in EffectLists
    /\ Len(OngoingEffectsToJustApplyOnStart) + Len(OngoingEffectsToRemoveOnEnd)
         <= MaxEffects
    /\ instantiated \in BOOLEAN
    /\ RemoveOnEndEffectHandles = <<>>
    /\ ascValid = TRUE
    /\ activeEffects = {}
    /\ nextHandle = 1
    /\ calls = <<>>
    /\ abilityCall = [op |-> "none", returned |-> TRUE]
    /\ PlayerArray = {}
    /\ bUseSeamlessTravel = FALSE
    /\ serverTravels = 0
    /\ lobbyCall = [op |-> "none", NumberOfPlayer |-> 0, world |-> TRUE,
                    travelled |-> FALSE, seamlessAtTravel |-> FALSE]
    /\ m_DebugCache = {}
    /\ m_World = FALSE
    /\ m_Canvas = FALSE
    /\ drawnOverlays = {}
    /\ drawnSources = {}
    /\ acousticsCall = [op |-> "none", sourceID |-> 0, isBeingDestroyed |-> FALSE,
                        mode |-> "none", ret |-> TRUE]

\* The empty lobby; bUseSeamlessTravel is whatever the game mode was configured with.
InitLobby ==
    /\ OngoingEffectsToJustApplyOnStart = <<>>
    /\ OngoingEffectsToRemoveOnEnd = <<>>
    /\ instantiated = TRUE
    /\ RemoveOnEndEffectHandles = <<>>
    /\ ascValid = TRUE
    /\ activeEffects = {}
    /\ nextHandle = 1
    /\ calls = <<>>
    /\ abilityCall = [op |-> "none", returned |-> TRUE]
    /\ PlayerArray = {}
    /\ bUseSeamlessTravel \in BOOLEAN
    /\ serverTravels = 0
    /\ lobbyCall = [op |-> "none", NumberOfPlayer |-> 0, world |-> TRUE,
                    travelled |-> FALSE, seamlessAtTravel |-> FALSE]
    /\ m_DebugCache = {}
    /\ m_World = FALSE
    /\ m_Canvas = FALSE
    /\ drawnOverlays = {}
    /\ drawnSources = {}
    /\ acousticsCall = [op |-> "none", sourceID |-> 0, isBeingDestroyed |-> FALSE,
                        mode |-> "none", ret |-> TRUE]

\* FProjectAcousticsDebugRender after its constructor: m_World(nullptr),
\* m_Canvas(nullptr), an empty cache.
InitAcoustics ==
    /\ OngoingEffectsToJustApplyOnStart = <<>>
    /\ OngoingEffectsToRemoveOnEnd = <<>>
    /\ instantiated = TRUE
    /\ RemoveOnEndEffectHandles = <<>>
    /\ ascValid = TRUE
    /\ activeEffects = {}
    /\ nextHandle = 1
    /\ calls = <<>>
    /\ abilityCall = [op |-> "none", returned |-> TRUE]
    /\ PlayerArray = {}
    /\ bUseSeamlessTravel = FALSE
    /\ serverTravels = 0
    /\ lobbyCall = [op |-> "none", NumberOfPlayer |-> 0, world |-> TRUE,
                    travelled |-> FALSE, seamlessAtTravel |-> FALSE]
    /\ m_DebugCache = {}
    /\ m_World = FALSE
    /\ m_Canvas = FALSE
    /\ drawnOverlays = {}
    /\ drawnSources = {}
    /\ acousticsCall = [op |-> "none", sourceID |-> 0, isBeingDestroyed |-> FALSE,
                        mode |-> "none", ret |-> TRUE]

SpecAbility == InitAbility /\ [][NextAbility]_vars

SpecLobby == InitLobby /\ [][NextLobby]_vars

SpecAcoustics == InitAcoustics /\ [][NextAcoustics]_vars

====
